---- MODULE Spec2Model ----
(***************************************************************************)
(* go-get: resolution of the newest module version compatible with the    *)
(* local Go toolchain.                                                     *)
(*                                                                         *)
(* Modelled revision: the Manager of src/unnamed/part_001, lines 242-579   *)
(* (GoGet with the refresh flag, cache keyed by local Go version), with    *)
(* the registry helpers of src/pkg/mod/util.go.                            *)
(*                                                                         *)
(* Two specifications share the state and the helper operators:            *)
(*   SpecRun  one GoGet call in the steps of the code, with one process    *)
(*            per probe goroutine (semaphore, wait group, result channel); *)
(*   Spec     a sequence of GoGet calls, each one action, interleaved with *)
(*            registry publications and retractions.                       *)
(***************************************************************************)
EXTENDS Integers, Sequences, FiniteSets, TLC

\* ------------------------------------------------------------------ bounds

\* Number of version tags the registry may ever publish (tags 1..MaxVersions).
MaxVersions == 2

\* Capacity of Manager.sem. The source sets 20 (part_001:260); the model
\* scales it down so that a probe round has more tasks than permits.
MaxConcurrent == 1

\* ------------------------------------------------------------ string model

\* A Go version string: an optional "go" prefix and dotted numeric segments.
\* The empty string has no prefix and no segments.
Str(prefix, seg) == [go |-> prefix, seg |-> seg]

EmptyStr == Str(FALSE, <<>>)

\* "go" + s
GoPrefix(s) == [s EXCEPT !.go = TRUE]

\* strings.TrimPrefix(s, "go")
TrimPrefix(s) == [s EXCEPT !.go = FALSE]

\* Module paths; ModuleOrder is their order as JSON object keys.
Modules == {"a", "b"}

ModuleOrder == <<"a", "b">>

\* Local toolchain versions: "go1.21.0" (from `go version`) and "go1.22"
\* (from the go directive of the project's go.mod).
LocalGoVersions == {Str(TRUE, <<1, 21, 0>>), Str(TRUE, <<1, 22>>)}

\* Sorted key order of the local versions in the cache document.
LocalOrder == <<Str(TRUE, <<1, 21, 0>>), Str(TRUE, <<1, 22>>)>>

\* A descriptor (.mod) body: whether it holds a go directive, and its version.
NoDirectiveBody == [directive |-> FALSE, ver |-> EmptyStr]

DirectiveBody(seg) == [directive |-> TRUE, ver |-> Str(FALSE, seg)]

\* Descriptors a published version may carry: none, "go 1.18", "go 1.22".
Bodies == {NoDirectiveBody, DirectiveBody(<<1, 18>>), DirectiveBody(<<1, 22>>)}

\* ---------------------------------------------------------------- versions

\* The tag "" that strings.Split yields for an empty listing body.
EmptyTag == 0

\* The value of a module that is no key of an inner map.
NoVersion == 0 - 1

Tags == 1..MaxVersions

\* Pre-release tags of version n that the registry may list: vN-rc.1, which
\* carries one of the markers -alpha, -beta, -rc, +incompatible, and vN-pre,
\* which carries none of them and is not matched by StableVersionPattern.
RcTag(n) == 10 + n

PreTag(n) == 20 + n

RcTags == {RcTag(n) : n \in Tags}

PreTags == {PreTag(n) : n \in Tags}

Versions == Tags \cup {EmptyTag}

\* StableVersionPattern `^v\d+\.\d+\.\d+$`: the published tags are vX.Y.Z.
IsStable(v) == v \in Tags

\* strings.Contains(v, "-alpha"), "-beta", "-rc" or "+incompatible".
HasMarker(v) == v \in RcTags

\* strings.Split(strings.TrimSpace(body), "\n")
SplitLines(raw) == IF raw = <<>> THEN <<EmptyTag>> ELSE raw

StableOf(all) == SelectSeq(all, LAMBDA v : IsStable(v) /\ ~HasMarker(v))

LooseOf(all) == SelectSeq(all, LAMBDA v : ~HasMarker(v))

\* listVersion, after the HTTP request succeeded.
listVersion(raw, verbose) ==
    LET all    == SplitLines(raw)
        stable == StableOf(all)
        loose  == LooseOf(all)
    IN  IF stable # <<>> THEN stable
        ELSE IF loose = <<>> /\ verbose THEN all
        ELSE loose

\* ------------------------------------------------------ version comparison

\* Fault model: a parser that wants all three segments written out.
NewVersionStrict(s) ==
    [err |-> s.go \/ Len(s.seg) # 3,
     segments |-> [i \in 1..3 |-> IF i <= Len(s.seg) THEN s.seg[i] ELSE 0]]

\* version.NewVersion: fails on a "go" prefix and on the empty string; pads the
\* segments to three.
NewVersion(s) ==
    [err |-> s.go \/ s.seg = <<>>,
     segments |-> [i \in 1..3 |-> IF i <= Len(s.seg) THEN s.seg[i] ELSE 0]]

\* Version.GreaterThanOrEqual on padded segments.
SegGreaterThanOrEqual(x, y) ==
    \/ x[1] > y[1]
    \/ x[1] = y[1] /\ x[2] > y[2]
    \/ x[1] = y[1] /\ x[2] = y[2] /\ x[3] >= y[3]

\* Fault model: the comparison by strconv.ParseFloat of an earlier revision,
\* which cannot parse a three-segment version and then answers true. The
\* minors compared here all have two digits.
compareGoVersionsFloat(currentVersion, requiredVersion) ==
    LET current == TrimPrefix(currentVersion)
        required == TrimPrefix(requiredVersion)
    IN  IF current.go \/ required.go \/ Len(current.seg) # 2 \/ Len(required.seg) # 2
        THEN TRUE
        ELSE \/ current.seg[1] > required.seg[1]
             \/ current.seg[1] = required.seg[1] /\ current.seg[2] >= required.seg[2]

compareGoVersions(currentVersion, requiredVersion) ==
    LET v1 == NewVersion(TrimPrefix(currentVersion))
        v2 == NewVersion(TrimPrefix(requiredVersion))
    IN  IF v1.err \/ v2.err THEN TRUE
        ELSE SegGreaterThanOrEqual(v1.segments, v2.segments)

\* getModuleGoVersion: transport failure, or the directive of the body; a
\* body without a go directive is an error (util.go:99).
getModuleGoVersion(transportOK, body) ==
    IF ~transportOK THEN [goVer |-> EmptyStr, err |-> TRUE]
    ELSE IF body.directive THEN [goVer |-> body.ver, err |-> FALSE]
    ELSE [goVer |-> EmptyStr, err |-> TRUE]

\* Fault model: a probe that goes on after a fetch error, with the empty
\* requirement the failed fetch returned.
ProbeResultIgnoringError(localGoVersion, ver, fetched) ==
    [version |-> ver, goVersion |-> fetched.goVer,
     compatible |-> \/ fetched.goVer = EmptyStr
                    \/ compareGoVersions(localGoVersion, GoPrefix(fetched.goVer))]

\* The result a probe goroutine sends for version ver.
ProbeResult(localGoVersion, ver, fetched) ==
    IF fetched.err
    THEN [version |-> ver, goVersion |-> EmptyStr, compatible |-> FALSE]
    ELSE [version |-> ver, goVersion |-> fetched.goVer,
          compatible |-> \/ fetched.goVer = EmptyStr
                         \/ compareGoVersions(localGoVersion, GoPrefix(fetched.goVer))]

\* ------------------------------------------------------------------- cache

\* An inner map of modMap: absent key, nil map, or a map module -> version
\* (NoVersion where the module is no key of it).
NoEntries == [mo \in Modules |-> NoVersion]

AbsentInner == [st |-> "absent", kv |-> NoEntries]

NilInner == [st |-> "nil", kv |-> NoEntries]

EmptyInner == [st |-> "map", kv |-> NoEntries]

\* make(map[string]map[string]string)
EmptyMap == [isNil |-> FALSE, m |-> [l \in LocalGoVersions |-> AbsentInner]]

\* The JSON text of a cache: null, or an object whose members are in key
\* order; a member's value is null or an object of module/version members.
NullDoc == [null |-> TRUE, members |-> <<>>]

MapSeq(s, F(_)) == [i \in 1..Len(s) |-> F(s[i])]

MarshalInner(l, inner) ==
    [key |-> l, null |-> inner.st = "nil",
     members |-> MapSeq(SelectSeq(ModuleOrder, LAMBDA mo : inner.kv[mo] # NoVersion),
                        LAMBDA mo : [key |-> mo, val |-> inner.kv[mo]])]

\* json.MarshalIndent(m.modMap, "", "  ")
MarshalIndent(mm) ==
    IF mm.isNil THEN NullDoc
    ELSE [null |-> FALSE,
          members |-> MapSeq(SelectSeq(LocalOrder, LAMBDA l : mm.m[l].st # "absent"),
                             LAMBDA l : MarshalInner(l, mm.m[l]))]

Last(S) == CHOOSE i \in S : \A j \in S : j <= i

\* The value of the last member of members that has the key k.
Member(members, k) == members[Last({i \in 1..Len(members) : members[i].key = k})]

HasMember(members, k) == \E i \in 1..Len(members) : members[i].key = k

UnmarshalInner(e) ==
    IF e.null THEN NilInner
    ELSE [st |-> "map",
          kv |-> [mo \in Modules |->
                    IF HasMember(e.members, mo) THEN Member(e.members, mo).val
                    ELSE NoVersion]]

\* json.Unmarshal(data, &m.modMap) into the empty map, for well-formed data.
Unmarshal(doc) ==
    [isNil |-> doc.null,
     m |-> [l \in LocalGoVersions |->
              IF HasMember(doc.members, l) THEN UnmarshalInner(Member(doc.members, l))
              ELSE AbsentInner]]

\* The cache file: absent (or unreadable), not JSON, or a JSON document.
AbsentFile == [kind |-> "absent", doc |-> NullDoc]

GarbageFile == [kind |-> "garbage", doc |-> NullDoc]

DocFile(doc) == [kind |-> "doc", doc |-> doc]

\* os.WriteFile(m.cachePath, data, 0644)
WriteFile(file, doc, writeOK) ==
    IF writeOK THEN [file |-> DocFile(doc), err |-> FALSE]
    ELSE [file |-> file, err |-> TRUE]

\* Fault model: a load that resets the map and never reads the document.
loadCacheForgetful(file, writeOK) ==
    IF file.kind = "doc"
    THEN [modMap |-> EmptyMap, file |-> file, err |-> FALSE]
    ELSE LET w == WriteFile(file, MarshalIndent(EmptyMap), writeOK)
         IN  [modMap |-> EmptyMap, file |-> w.file, err |-> w.err]

\* loadCache: the map and the file it leaves, and the error it returns.
loadCache(file, writeOK) ==
    IF file.kind = "doc"
    THEN [modMap |-> Unmarshal(file.doc), file |-> file, err |-> FALSE]
    ELSE LET w == WriteFile(file, MarshalIndent(EmptyMap), writeOK)
         IN  [modMap |-> EmptyMap, file |-> w.file, err |-> w.err]

\* saveCache
saveCache(mm, file, writeOK) == WriteFile(file, MarshalIndent(mm), writeOK)

\* Fault model: a lookup that returns the cached version without looking for
\* it in the listing.
findCompatibleVersionFromCacheUnlisted(mm, mod, vers, local) ==
    LET goVersionMap == mm.m[local]
    IN  IF mm.isNil \/ goVersionMap.st = "absent" THEN EmptyTag
        ELSE IF goVersionMap.kv[mod] = NoVersion THEN EmptyTag
        ELSE goVersionMap.kv[mod]

\* Fault model: a lookup keyed by the module alone, as in the earlier
\* revision of the cache: it finds the newest listed version cached under
\* any toolchain version.
findCompatibleVersionFromCacheAnyKey(mm, mod, vers, local) ==
    LET found == {i \in 1..Len(vers) :
                     \E l \in LocalGoVersions :
                         /\ ~mm.isNil
                         /\ mm.m[l].st = "map"
                         /\ mm.m[l].kv[mod] = vers[i]}
    IN  IF found = {} THEN EmptyTag
        ELSE vers[CHOOSE i \in found : \A j \in found : j <= i]

\* findCompatibleVersionFromCache: the cached version if the listing holds it,
\* "" (EmptyTag) otherwise. Reading a nil map finds no key.
findCompatibleVersionFromCache(mm, mod, vers, local) ==
    LET goVersionMap == mm.m[local]
    IN  IF mm.isNil \/ goVersionMap.st = "absent" THEN EmptyTag
        ELSE IF goVersionMap.kv[mod] = NoVersion THEN EmptyTag
        ELSE IF \E i \in 1..Len(vers) : vers[i] = goVersionMap.kv[mod]
        THEN goVersionMap.kv[mod]
        ELSE EmptyTag

\* if _, exists := m.modMap[local]; !exists { m.modMap[local] = make(...) }
\* An assignment to an entry of a nil map panics.
CreateInner(mm, local) ==
    IF mm.isNil THEN [modMap |-> mm, panic |-> TRUE]
    ELSE IF mm.m[local].st = "absent"
    THEN [modMap |-> [mm EXCEPT !.m[local] = EmptyInner], panic |-> FALSE]
    ELSE [modMap |-> mm, panic |-> FALSE]

\* Fault model: a store that replaces the inner map by one holding only the
\* module resolved.
StoreSelectedFresh(mm, local, mod, v) ==
    IF mm.m[local].st # "map" THEN [modMap |-> mm, panic |-> TRUE]
    ELSE [modMap |-> [mm EXCEPT !.m[local].kv = [NoEntries EXCEPT ![mod] = v]],
          panic |-> FALSE]

\* m.modMap[localGoVersion][module] = selectedVersion
StoreSelected(mm, local, mod, v) ==
    IF mm.m[local].st # "map" THEN [modMap |-> mm, panic |-> TRUE]
    ELSE [modMap |-> [mm EXCEPT !.m[local].kv[mod] = v], panic |-> FALSE]

\* Fault model: every version that has a result counts as compatible.
CompatibleVersionsAll(results) ==
    {results[i].version : i \in 1..Len(results)}

\* compatibleVersions: the versions of the results marked compatible.
CompatibleVersions(results) ==
    {results[i].version : i \in {j \in 1..Len(results) : results[j].compatible}}

\* Fault model: a scan from the oldest version to the newest.
SelectIndexOldest(vers, compatible) ==
    LET hits == {i \in 1..Len(vers) : vers[i] \in compatible}
    IN  IF hits = {} THEN 0 ELSE CHOOSE i \in hits : \A j \in hits : i <= j

\* for i := len(versions) - 1; i >= 0; i-- { if compatibleVersions[v] ... }
\* The index selected, 0 when the scan finds none.
SelectIndex(vers, compatible) ==
    LET hits == {i \in 1..Len(vers) : vers[i] \in compatible}
    IN  IF hits = {} THEN 0 ELSE Last(hits)

\* `go version` is run only if go.mod gives no version.
ToolchainsFor(project) ==
    IF project.exists /\ project.body.directive
    THEN {[ok |-> FALSE, out |-> EmptyStr]}
    ELSE {[ok |-> FALSE, out |-> EmptyStr],
          [ok |-> TRUE, out |-> EmptyStr],
          [ok |-> TRUE, out |-> Str(FALSE, <<1, 21, 0>>)]}

\* Fault model: `go version` is asked first and go.mod only if it fails.
GoVersionCommandFirst(project, toolchain) ==
    IF toolchain.ok /\ toolchain.out # EmptyStr
    THEN [version |-> GoPrefix(toolchain.out), err |-> FALSE]
    ELSE IF project.exists /\ project.body.directive
    THEN [version |-> GoPrefix(project.body.ver), err |-> FALSE]
    ELSE [version |-> EmptyStr, err |-> TRUE]

\* GoVersion: the go directive of the project's go.mod, else the output of
\* `go version`, else an error.
GoVersion(project, toolchain) ==
    IF project.exists /\ project.body.directive
    THEN [version |-> GoPrefix(project.body.ver), err |-> FALSE]
    ELSE IF toolchain.ok /\ toolchain.out # EmptyStr
    THEN [version |-> GoPrefix(toolchain.out), err |-> FALSE]
    ELSE [version |-> EmptyStr, err |-> TRUE]

\* The go.mod files the calls are run with: none, one without a go directive,
\* one with "go 1.22".
Projects ==
    {[exists |-> FALSE, body |-> NoDirectiveBody],
     [exists |-> TRUE, body |-> NoDirectiveBody],
     [exists |-> TRUE, body |-> DirectiveBody(<<1, 22>>)]}

\* ------------------------------------------------------------------- state

VARIABLES
    registry,          \* the proxy's tag list (@v/list), oldest first
    gomod,             \* the descriptor (.mod) of each tag
    nextTag,           \* the next tag the registry publishes
    disk,              \* the cache file at m.cachePath
    modMap,            \* Manager.modMap
    sem,               \* permits held of Manager.sem
    pc,                \* position of the GoGet call
    module,            \* GoGet's module argument
    refresh,           \* GoGet's refresh argument
    localGoVersion,    \* GoGet's localGoVersion
    versions,          \* GoGet's versions (the filtered listing)
    tasks,             \* the probe goroutines, one per index of versions
    resultChan,        \* the results sent and not yet received
    wg,                \* the wait group's counter
    compatibleVersion, \* the version GoGet selected
    retErr,            \* GoGet's outcome
    installed,         \* the `go get module@version` commands run by the call
    fetchLog,          \* per index of versions: the descriptor fetches made
    loaded,            \* the cache as loadCache left it
    received,          \* the results the call received from resultChan, in order
    accesses,          \* the accesses the call made to m.modMap
    pure               \* a call of a helper function on its own, with its result

vars == <<registry, gomod, nextTag, disk, modMap, sem, pc, module, refresh,
          localGoVersion, versions, tasks, resultChan, wg, compatibleVersion,
          retErr, installed, fetchLog, loaded, received, accesses, pure>>

registryVars == <<registry, gomod, nextTag>>

callVars == <<module, refresh, localGoVersion, versions, compatibleVersion,
              retErr, installed, loaded, received, accesses>>

roundVars == <<tasks, resultChan, wg, fetchLog, sem>>

NoFetch == [n |-> 0, transportOK |-> FALSE, body |-> NoDirectiveBody]

\* loaded.before is the cache file as GoGet found it when it was called.
NoLoad == [done |-> FALSE, modMap |-> EmptyMap, disk |-> AbsentFile,
           before |-> AbsentFile]

\* An access of the call to m.modMap, and whether m.mutex is held for it.
Access(kind, locked) == [kind |-> kind, locked |-> locked]

\* loadCache assigns and fills m.modMap without the mutex.
LoadAccess == Access("load", FALSE)

\* Fault model: a lookup that reads the map without taking the mutex.
LookupAccessUnlocked == Access("lookup", FALSE)

\* findCompatibleVersionFromCache reads between Lock and Unlock.
LookupAccess == Access("lookup", TRUE)

\* The inner map is created between Lock and Unlock.
CreateAccess == Access("create", TRUE)

\* m.modMap[localGoVersion][module] = selectedVersion, without the mutex.
StoreAccess == Access("store", FALSE)

\* saveCache marshals m.modMap without the mutex.
PersistAccess == Access("persist", FALSE)

\* No helper function is being called on its own.
NoPure == [op |-> "none"]

\* A goroutine before it runs.
Spawned(ver) ==
    [pc |-> "acquire", ver |-> ver, fetched |-> [goVer |-> EmptyStr, err |-> FALSE]]

\* NewManager, and a call not yet made.
InitCall ==
    /\ modMap = EmptyMap
    /\ sem = 0
    /\ pc = "start"
    /\ module = "a"
    /\ refresh = FALSE
    /\ localGoVersion = EmptyStr
    /\ versions = <<>>
    /\ tasks = <<>>
    /\ resultChan = <<>>
    /\ wg = 0
    /\ compatibleVersion = EmptyTag
    /\ retErr = "none"
    /\ installed = <<>>
    /\ fetchLog = <<>>
    /\ loaded = NoLoad
    /\ received = <<>>
    /\ accesses = {}

\* The descriptor the registry serves for a listed tag; for the tag "" it
\* serves an error page, a body without a go directive.
DescriptorOf(v) == IF v \in Tags THEN gomod[v] ELSE NoDirectiveBody

\* ------------------------------------------------- GoGet, step by step

\* GoGet is called: localGoVersion, err := m.GoVersion()
CallGoGet(mo, r, project, toolchain) ==
    /\ pc = "start"
    /\ module' = mo
    /\ refresh' = r
    /\ LET gv == GoVersion(project, toolchain)
       IN  IF gv.err
           THEN /\ pc' = "returned"
                /\ retErr' = "GoVersion"
                /\ UNCHANGED localGoVersion
           ELSE /\ pc' = "load"
                /\ localGoVersion' = gv.version
                /\ UNCHANGED retErr
    /\ loaded' = [NoLoad EXCEPT !.before = disk]
    /\ UNCHANGED <<registryVars, disk, modMap, roundVars, versions,
                   compatibleVersion, installed, received, accesses, pure>>

\* if err = m.loadCache(); err != nil { return err }
LoadCacheStep(writeOK) ==
    /\ pc = "load"
    /\ LET l == loadCache(disk, writeOK)
       IN  /\ modMap' = l.modMap
           /\ disk' = l.file
           /\ loaded' = [done |-> TRUE, modMap |-> l.modMap, disk |-> l.file,
                         before |-> disk]
           /\ IF l.err
              THEN pc' = "returned" /\ retErr' = "loadCache"
              ELSE pc' = "list" /\ UNCHANGED retErr
    /\ accesses' = accesses \cup {LoadAccess}
    /\ UNCHANGED <<registryVars, roundVars, module, refresh, localGoVersion,
                   versions, compatibleVersion, installed, received, pure>>

\* versions, err := listVersion(module, m.verbose)
\* if err != nil || len(versions) == 0 { return ... }
ListVersionStep(transportOK, verbose) ==
    /\ pc = "list"
    /\ LET vs == listVersion(registry, verbose)
       IN  IF ~transportOK \/ Len(vs) = 0
           THEN pc' = "returned" /\ retErr' = "listVersion" /\ UNCHANGED versions
           ELSE pc' = "find" /\ versions' = vs /\ UNCHANGED retErr
    /\ UNCHANGED <<registryVars, disk, modMap, roundVars, module, refresh,
                   localGoVersion, compatibleVersion, installed, loaded, received,
                   accesses, pure>>

\* Lines 377-410 and 474-507: create the inner map under the mutex, then
\* start one goroutine per version (wg.Add(1); go func(ver)).
StartRound ==
    LET c == CreateInner(modMap, localGoVersion)
    IN  /\ modMap' = c.modMap
        /\ accesses' = accesses \cup
                          (IF refresh THEN {} ELSE {LookupAccess}) \cup {CreateAccess}
        /\ IF c.panic
           THEN /\ pc' = "returned"
                /\ retErr' = "panic"
                /\ UNCHANGED <<tasks, wg, fetchLog>>
           ELSE /\ pc' = "wait"
                /\ tasks' = [i \in 1..Len(versions) |-> Spawned(versions[i])]
                /\ wg' = Len(versions)
                /\ fetchLog' = [i \in 1..Len(versions) |-> NoFetch]
                /\ UNCHANGED retErr
        /\ UNCHANGED <<resultChan, sem, compatibleVersion>>

\* Fault model: a search that starts a probe round without consulting the
\* cache.
FindStepAlwaysRound ==
    /\ pc = "find"
    /\ StartRound
    /\ UNCHANGED <<registryVars, disk, module, refresh, localGoVersion,
                   versions, installed, loaded, received, pure>>

\* GoGet lines 343-351 with the head of findCompatibleVersion (370-373) or
\* of findCompatibleVersionRemote.
FindStep ==
    /\ pc = "find"
    /\ IF refresh
       THEN StartRound
       ELSE LET cached == findCompatibleVersionFromCache(
                              modMap, module, versions, localGoVersion)
            IN  IF cached # EmptyTag
                THEN /\ compatibleVersion' = cached
                     /\ pc' = "install"
                     /\ accesses' = accesses \cup {LookupAccess}
                     /\ UNCHANGED <<modMap, roundVars, retErr>>
                ELSE StartRound
    /\ UNCHANGED <<registryVars, disk, module, refresh, localGoVersion,
                   versions, installed, loaded, received, pure>>

\* Fault model: a probe that starts its fetch without waiting for a permit.
AcquireUngated(i) ==
    /\ pc = "wait"
    /\ i \in 1..Len(tasks)
    /\ tasks[i].pc = "acquire"
    /\ sem' = sem + 1
    /\ tasks' = [tasks EXCEPT ![i].pc = "fetch"]
    /\ UNCHANGED <<registryVars, disk, modMap, pc, callVars, resultChan, wg,
                   fetchLog, pure>>

\* m.sem <- struct{}{}
Acquire(i) ==
    /\ pc = "wait"
    /\ i \in 1..Len(tasks)
    /\ tasks[i].pc = "acquire"
    /\ sem < MaxConcurrent
    /\ sem' = sem + 1
    /\ tasks' = [tasks EXCEPT ![i].pc = "fetch"]
    /\ UNCHANGED <<registryVars, disk, modMap, pc, callVars, resultChan, wg,
                   fetchLog, pure>>

\* goVer, err := getModuleGoVersion(module, ver, m.verbose)
Fetch(i, transportOK) ==
    /\ pc = "wait"
    /\ i \in 1..Len(tasks)
    /\ tasks[i].pc = "fetch"
    /\ LET body == DescriptorOf(tasks[i].ver)
       IN  /\ tasks' = [tasks EXCEPT ![i].pc = "send",
                                     ![i].fetched = getModuleGoVersion(transportOK, body)]
           /\ fetchLog' = [fetchLog EXCEPT ![i] =
                              [n |-> @.n + 1, transportOK |-> transportOK, body |-> body]]
    /\ UNCHANGED <<registryVars, disk, modMap, pc, callVars, resultChan, wg,
                   sem, pure>>

\* Fault model: a probe goroutine that writes what it fetched into the cache
\* map, as the goroutines of the earlier revision did.
SendStoring(i) ==
    /\ pc = "wait"
    /\ i \in 1..Len(tasks)
    /\ tasks[i].pc = "send"
    /\ Len(resultChan) < Len(versions)
    /\ resultChan' = Append(resultChan,
                            ProbeResult(localGoVersion, tasks[i].ver, tasks[i].fetched))
    /\ tasks' = [tasks EXCEPT ![i].pc = "release"]
    /\ modMap' = IF tasks[i].fetched.err THEN modMap
                 ELSE StoreSelected(modMap, localGoVersion, module, tasks[i].ver).modMap
    /\ UNCHANGED <<registryVars, disk, pc, callVars, wg, fetchLog, sem, pure>>

\* resultChan <- versionResult{...}; the channel's capacity is len(versions).
Send(i) ==
    /\ pc = "wait"
    /\ i \in 1..Len(tasks)
    /\ tasks[i].pc = "send"
    /\ Len(resultChan) < Len(versions)
    /\ resultChan' = Append(resultChan,
                            ProbeResult(localGoVersion, tasks[i].ver, tasks[i].fetched))
    /\ tasks' = [tasks EXCEPT ![i].pc = "release"]
    /\ UNCHANGED <<registryVars, disk, modMap, pc, callVars, wg, fetchLog, sem,
                   pure>>

\* Fault model: a probe that ends without giving its permit back.
ReleaseKeepingPermit(i) ==
    /\ pc = "wait"
    /\ i \in 1..Len(tasks)
    /\ tasks[i].pc = "release"
    /\ tasks' = [tasks EXCEPT ![i].pc = "done"]
    /\ UNCHANGED <<registryVars, disk, modMap, pc, callVars, resultChan, wg,
                   fetchLog, sem, pure>>

\* defer func() { <-m.sem }()
Release(i) ==
    /\ pc = "wait"
    /\ i \in 1..Len(tasks)
    /\ tasks[i].pc = "release"
    /\ sem' = sem - 1
    /\ tasks' = [tasks EXCEPT ![i].pc = "done"]
    /\ UNCHANGED <<registryVars, disk, modMap, pc, callVars, resultChan, wg,
                   fetchLog, pure>>

\* defer wg.Done()
WgDone(i) ==
    /\ pc = "wait"
    /\ i \in 1..Len(tasks)
    /\ tasks[i].pc = "done"
    /\ wg' = wg - 1
    /\ tasks' = [tasks EXCEPT ![i].pc = "exit"]
    /\ UNCHANGED <<registryVars, disk, modMap, pc, callVars, resultChan, sem,
                   fetchLog, pure>>

\* Fault model: the save placed before the selection, as in the earlier
\* revision, so that the file is written also when nothing is selected.
AggregateSaveFirst(mm, file, mo, local, vers, results, writeOK) ==
    LET sel == SelectIndex(vers, CompatibleVersions(results))
        saved == saveCache(mm, file, writeOK).file
    IN  IF sel = 0
        THEN [modMap |-> mm, file |-> saved, version |-> EmptyTag,
              err |-> "NoCompatible", acc |-> {PersistAccess}]
        ELSE LET st == StoreSelected(mm, local, mo, vers[sel])
             IN  IF st.panic
                 THEN [modMap |-> mm, file |-> saved, version |-> EmptyTag,
                       err |-> "panic", acc |-> {PersistAccess, StoreAccess}]
                 ELSE [modMap |-> st.modMap,
                       file |-> saveCache(st.modMap, saved, writeOK).file,
                       version |-> vers[sel], err |-> "none",
                       acc |-> {PersistAccess, StoreAccess}]

\* The outcome of lines 415-439 (512-536) for the results received: the
\* selection, the store and the save.
Aggregate(mm, file, mo, local, vers, results, writeOK) ==
    LET sel == SelectIndex(vers, CompatibleVersions(results))
    IN  IF sel = 0
        THEN [modMap |-> mm, file |-> file, version |-> EmptyTag,
              err |-> "NoCompatible", acc |-> {}]
        ELSE LET st == StoreSelected(mm, local, mo, vers[sel])
             IN  IF st.panic
                 THEN [modMap |-> mm, file |-> file, version |-> EmptyTag,
                       err |-> "panic", acc |-> {StoreAccess}]
                 ELSE [modMap |-> st.modMap,
                       file |-> saveCache(st.modMap, file, writeOK).file,
                       version |-> vers[sel], err |-> "none",
                       acc |-> {StoreAccess, PersistAccess}]

\* Fault model: the aggregation started without wg.Wait().
CollectEarly(writeOK) ==
    /\ pc = "wait"
    /\ LET a == Aggregate(modMap, disk, module, localGoVersion, versions,
                          resultChan, writeOK)
       IN  /\ modMap' = a.modMap
           /\ disk' = a.file
           /\ compatibleVersion' = a.version
           /\ IF a.err = "none"
              THEN pc' = "install" /\ UNCHANGED retErr
              ELSE pc' = "returned" /\ retErr' = a.err
           /\ accesses' = accesses \cup a.acc
    /\ received' = resultChan
    /\ resultChan' = <<>>
    /\ UNCHANGED <<registryVars, module, refresh, localGoVersion, versions,
                   installed, loaded, tasks, wg, fetchLog, sem, pure>>

\* wg.Wait(); close(resultChan); then the aggregation and the selection.
Collect(writeOK) ==
    /\ pc = "wait"
    /\ wg = 0
    /\ LET a == Aggregate(modMap, disk, module, localGoVersion, versions,
                          resultChan, writeOK)
       IN  /\ modMap' = a.modMap
           /\ disk' = a.file
           /\ compatibleVersion' = a.version
           /\ IF a.err = "none"
              THEN pc' = "install" /\ UNCHANGED retErr
              ELSE pc' = "returned" /\ retErr' = a.err
           /\ accesses' = accesses \cup a.acc
    /\ received' = resultChan
    /\ resultChan' = <<>>
    /\ UNCHANGED <<registryVars, module, refresh, localGoVersion, versions,
                   installed, loaded, tasks, wg, fetchLog, sem, pure>>

\* Fault model: an install of the newest listed version instead of the
\* selected one.
InstallNewest(cmdOK) ==
    /\ pc = "install"
    /\ installed' = Append(installed, <<module, versions[Len(versions)]>>)
    /\ pc' = "returned"
    /\ retErr' = IF cmdOK THEN "nil" ELSE "goget"
    /\ UNCHANGED <<registryVars, disk, modMap, roundVars, module, refresh,
                   localGoVersion, versions, compatibleVersion, loaded, received,
                   accesses, pure>>

\* exec.Command("go", "get", module@compatibleVersion).Run()
Install(cmdOK) ==
    /\ pc = "install"
    /\ installed' = Append(installed, <<module, compatibleVersion>>)
    /\ pc' = "returned"
    /\ retErr' = IF cmdOK THEN "nil" ELSE "goget"
    /\ UNCHANGED <<registryVars, disk, modMap, roundVars, module, refresh,
                   localGoVersion, versions, compatibleVersion, loaded, received,
                   accesses, pure>>

\* The timer armed by the command (time.AfterFunc) fires while GoGet runs:
\* its function calls os.Exit(1). The process ends with its goroutines and
\* its memory; GoGet returns nothing to its caller.
Timeout ==
    /\ pc \in {"load", "list", "find", "wait", "install"}
    /\ pc' = "exited"
    /\ modMap' = EmptyMap
    /\ tasks' = <<>>
    /\ resultChan' = <<>>
    /\ wg' = 0
    /\ sem' = 0
    /\ UNCHANGED <<registryVars, disk, callVars, fetchLog, pure>>

\* ------------------------------------------------------------ one call

\* Prefix(k): the listing <<1, ..., k>>.
Prefix(k) == [i \in 1..k |-> i]

\* The cache file an earlier call left after it resolved module "a" to
\* version 1 with go1.21.0.
CachedFile ==
    DocFile(MarshalIndent(
        [EmptyMap EXCEPT !.m[Str(TRUE, <<1, 21, 0>>)] =
            [EmptyInner EXCEPT !.kv["a"] = 1]]))

\* Cache files that json.Unmarshal accepts although no call wrote them: the
\* document null, and a document {"go1.21.0": null}.
NullFile == DocFile(NullDoc)

NullInnerFile ==
    DocFile(MarshalIndent([EmptyMap EXCEPT !.m[Str(TRUE, <<1, 21, 0>>)] = NilInner]))

\* A registry that has published the tags 1..k, each with some descriptor;
\* a cache file that is absent, not JSON, the empty document, the document
\* of an earlier call (whose version 1, if still listed, has the descriptor
\* that made it compatible), or a document with a null.
InitRun ==
    /\ InitCall
    /\ \E k \in 0..MaxVersions :
          /\ registry = Prefix(k)
          /\ nextTag = k + 1
          /\ gomod \in [Tags -> Bodies]
          /\ \A v \in Tags : v > k => gomod[v] = NoDirectiveBody
          /\ disk \in {AbsentFile, GarbageFile, DocFile(MarshalIndent(EmptyMap)),
                       CachedFile, NullFile, NullInnerFile}
          /\ (disk = CachedFile /\ k >= 1) => gomod[1] = DirectiveBody(<<1, 18>>)
    /\ pure = NoPure

NextRun ==
    \/ \E mo \in Modules, r \in BOOLEAN, p \in Projects :
          \E t \in ToolchainsFor(p) : CallGoGet(mo, r, p, t)
    \/ \E w \in BOOLEAN : LoadCacheStep(w)
    \/ \E t \in BOOLEAN, vb \in BOOLEAN : ListVersionStep(t, vb)
    \/ FindStep
    \/ \E i \in 1..MaxVersions : Acquire(i)
    \/ \E i \in 1..MaxVersions, t \in BOOLEAN : Fetch(i, t)
    \/ \E i \in 1..MaxVersions : Send(i)
    \/ \E i \in 1..MaxVersions : Release(i)
    \/ \E i \in 1..MaxVersions : WgDone(i)
    \/ \E w \in BOOLEAN : Collect(w)
    \/ \E c \in BOOLEAN : Install(c)
    \/ Timeout

SpecRun == InitRun /\ [][NextRun]_vars

\* The call under the scheduling of the Go runtime: a goroutine that can
\* take its next step eventually takes it, every descriptor fetch eventually
\* returns, and the caller goes on once wg.Wait() is released. Nothing is
\* required of the timer.
Fairness ==
    /\ \A i \in 1..MaxVersions :
          /\ WF_vars(Acquire(i))
          /\ WF_vars(\E t \in BOOLEAN : Fetch(i, t))
          /\ WF_vars(Send(i))
          /\ WF_vars(Release(i))
          /\ WF_vars(WgDone(i))
    /\ WF_vars(\E w \in BOOLEAN : Collect(w))

SpecLive == InitRun /\ [][NextRun]_vars /\ Fairness

\* ------------------------------------------------------ a sequence of calls

\* The probe round of lines 383-420 (480-517) as one step: every listed
\* version is fetched once, with the transport outcomes given.
RoundLog(vers, transport) ==
    [i \in 1..Len(vers) |->
        [n |-> 1, transportOK |-> transport[i], body |-> DescriptorOf(vers[i])]]

RoundResults(local, vers, log) ==
    [i \in 1..Len(vers) |->
        ProbeResult(local, vers[i], getModuleGoVersion(log[i].transportOK, log[i].body))]

\* Fault model: a round that saves the cache as soon as the inner map exists.
ProbeRoundSaving(mm, file, mo, local, vers, transport, writeOK) ==
    LET c == CreateInner(mm, local)
        log == RoundLog(vers, transport)
        saved == saveCache(c.modMap, file, writeOK).file
    IN  IF c.panic
        THEN [modMap |-> c.modMap, file |-> file, version |-> EmptyTag,
              err |-> "panic", log |-> <<>>, results |-> <<>>,
              acc |-> {CreateAccess}]
        ELSE LET results == RoundResults(local, vers, log)
                 a == Aggregate(c.modMap, saved, mo, local, vers, results, writeOK)
             IN  [modMap |-> a.modMap, file |-> a.file, version |-> a.version,
                  err |-> a.err, log |-> log, results |-> results,
                  acc |-> {CreateAccess, PersistAccess} \cup a.acc]

\* findCompatibleVersion after a miss, and findCompatibleVersionRemote.
ProbeRound(mm, file, mo, local, vers, transport, writeOK) ==
    LET c == CreateInner(mm, local)
        log == RoundLog(vers, transport)
    IN  IF c.panic
        THEN [modMap |-> c.modMap, file |-> file, version |-> EmptyTag,
              err |-> "panic", log |-> <<>>, results |-> <<>>,
              acc |-> {CreateAccess}]
        ELSE LET results == RoundResults(local, vers, log)
                 a == Aggregate(c.modMap, file, mo, local, vers, results, writeOK)
             IN  [modMap |-> a.modMap, file |-> a.file, version |-> a.version,
                  err |-> a.err, log |-> log, results |-> results,
                  acc |-> {CreateAccess} \cup a.acc]

\* Fault model: a search that consults the cache also when refresh is set.
FindCacheFirst(mm, file, mo, r, local, vers, transport, writeOK) ==
    LET cached == findCompatibleVersionFromCache(mm, mo, vers, local)
    IN  IF cached # EmptyTag
        THEN [modMap |-> mm, file |-> file, version |-> cached, err |-> "none",
              log |-> <<>>, results |-> <<>>, acc |-> {LookupAccess}]
        ELSE [ProbeRound(mm, file, mo, local, vers, transport, writeOK)
                 EXCEPT !.acc = @ \cup {LookupAccess}]

\* Fault model: a refreshing search that does not save what it selected.
FindRemoteUnsaved(mm, file, mo, r, local, vers, transport, writeOK) ==
    LET cached == findCompatibleVersionFromCache(mm, mo, vers, local)
    IN  IF r THEN [ProbeRound(mm, file, mo, local, vers, transport, writeOK)
                      EXCEPT !.file = file]
        ELSE IF cached # EmptyTag
        THEN [modMap |-> mm, file |-> file, version |-> cached, err |-> "none",
              log |-> <<>>, results |-> <<>>, acc |-> {LookupAccess}]
        ELSE [ProbeRound(mm, file, mo, local, vers, transport, writeOK)
                 EXCEPT !.acc = @ \cup {LookupAccess}]

\* findCompatibleVersion / findCompatibleVersionRemote, as GoGet calls them.
Find(mm, file, mo, r, local, vers, transport, writeOK) ==
    LET cached == findCompatibleVersionFromCache(mm, mo, vers, local)
    IN  IF r THEN ProbeRound(mm, file, mo, local, vers, transport, writeOK)
        ELSE IF cached # EmptyTag
        THEN [modMap |-> mm, file |-> file, version |-> cached, err |-> "none",
              log |-> <<>>, results |-> <<>>, acc |-> {LookupAccess}]
        ELSE [ProbeRound(mm, file, mo, local, vers, transport, writeOK)
                 EXCEPT !.acc = @ \cup {LookupAccess}]

\* The transport outcomes of a call's descriptor fetches: none are drawn on
\* a cache hit, which fetches nothing.
Transports(mm, mo, r, local, vs) ==
    IF ~r /\ findCompatibleVersionFromCache(mm, mo, vs, local) # EmptyTag
    THEN {[i \in 1..Len(vs) |-> TRUE]}
    ELSE [1..Len(vs) -> BOOLEAN]

\* What the search can return to GoGet: one outcome per way the descriptor
\* fetches and the cache write can go.
FindOutcomes(mm, file, mo, r, local, vs) ==
    {Find(mm, file, mo, r, local, vs, transport, saveOK) :
        transport \in Transports(mm, mo, r, local, vs), saveOK \in BOOLEAN}

\* GoGet lines 343-368: the search, then the install command.
FindAndInstall(mo, r, local, l, vs) ==
    \E f \in FindOutcomes(l.modMap, l.file, mo, r, local, vs) :
       /\ versions' = vs
       /\ modMap' = f.modMap
       /\ disk' = f.file
       /\ fetchLog' = f.log
       /\ received' = f.results
       /\ accesses' = {LoadAccess} \cup f.acc
       /\ compatibleVersion' = f.version
       /\ IF f.err = "none"
          THEN /\ installed' = <<<<mo, f.version>>>>
               /\ \E cmdOK \in BOOLEAN :
                     retErr' = IF cmdOK THEN "nil" ELSE "goget"
          ELSE /\ retErr' = f.err
               /\ UNCHANGED installed

\* GoGet lines 337-341, then the rest of the call.
ListAndFind(mo, r, local, l) ==
    \E listOK \in BOOLEAN, verbose \in BOOLEAN :
       LET vs == listVersion(registry, verbose)
       IN  IF ~listOK \/ Len(vs) = 0
           THEN /\ retErr' = "listVersion"
                /\ modMap' = l.modMap
                /\ disk' = l.file
                /\ accesses' = {LoadAccess}
                /\ UNCHANGED <<versions, compatibleVersion, installed, fetchLog, received>>
           ELSE FindAndInstall(mo, r, local, l, vs)

\* GoGet lines 333-335, then the rest of the call. A write happens only
\* when the file is not a JSON document.
LoadAndList(mo, r, local) ==
    \E loadOK \in (IF disk.kind = "doc" THEN {TRUE} ELSE BOOLEAN) :
       LET l == loadCache(disk, loadOK)
       IN  /\ loaded' = [done |-> TRUE, modMap |-> l.modMap, disk |-> l.file,
                         before |-> disk]
           /\ IF l.err
              THEN /\ retErr' = "loadCache"
                   /\ modMap' = l.modMap
                   /\ disk' = l.file
                   /\ accesses' = {LoadAccess}
                   /\ UNCHANGED <<versions, compatibleVersion, installed, fetchLog, received>>
              ELSE ListAndFind(mo, r, local, l)

\* One GoGet call (lines 327-368), run to its return. The outcomes of the
\* environment (file writes, requests, the install command) are drawn where
\* the call reaches them.
GoGet(mo, r, project, toolchain) ==
    /\ pc = "start"
    /\ pc' = "returned"
    /\ module' = mo
    /\ refresh' = r
    /\ LET gv == GoVersion(project, toolchain)
       IN  IF gv.err
           THEN /\ retErr' = "GoVersion"
                /\ loaded' = [NoLoad EXCEPT !.before = disk]
                /\ UNCHANGED <<disk, modMap, localGoVersion, versions,
                               compatibleVersion, installed, fetchLog, received,
                               accesses>>
           ELSE /\ localGoVersion' = gv.version
                /\ LoadAndList(mo, r, gv.version)
    /\ UNCHANGED <<registryVars, tasks, resultChan, wg, sem, pure>>

\* The process exits; the next call runs in a new process (NewManager).
Exit ==
    /\ pc = "returned"
    /\ modMap' = EmptyMap
    /\ pc' = "start"
    /\ module' = "a"
    /\ refresh' = FALSE
    /\ localGoVersion' = EmptyStr
    /\ versions' = <<>>
    /\ compatibleVersion' = EmptyTag
    /\ retErr' = "none"
    /\ installed' = <<>>
    /\ fetchLog' = <<>>
    /\ loaded' = NoLoad
    /\ received' = <<>>
    /\ accesses' = {}
    /\ UNCHANGED <<registryVars, disk, tasks, resultChan, wg, sem, pure>>

\* The registry publishes its next tag, with some descriptor.
Publish(body) ==
    /\ pc = "start"
    /\ nextTag <= MaxVersions
    /\ registry' = Append(registry, nextTag)
    /\ gomod' = [gomod EXCEPT ![nextTag] = body]
    /\ nextTag' = nextTag + 1
    /\ UNCHANGED <<disk, modMap, pc, callVars, roundVars, pure>>

\* The registry retracts a listed tag.
Retract(v) ==
    /\ pc = "start"
    /\ \E i \in 1..Len(registry) : registry[i] = v
    /\ registry' = SelectSeq(registry, LAMBDA x : x # v)
    /\ gomod' = [gomod EXCEPT ![v] = NoDirectiveBody]
    /\ UNCHANGED <<nextTag, disk, modMap, pc, callVars, roundVars, pure>>

Init ==
    /\ InitCall
    /\ registry = <<>>
    /\ nextTag = 1
    /\ gomod = [v \in Tags |-> NoDirectiveBody]
    /\ disk \in {AbsentFile, GarbageFile, DocFile(MarshalIndent(EmptyMap))}
    /\ pure = NoPure

Next ==
    \/ \E mo \in Modules, r \in BOOLEAN, p \in Projects :
          \E t \in ToolchainsFor(p) : GoGet(mo, r, p, t)
    \/ Exit
    \/ \E b \in Bodies : Publish(b)
    \/ \E v \in Tags : Retract(v)

Spec == Init /\ [][Next]_vars

\* ------------------------------------------- helper functions on their own

\* Greatest length of a registry listing given to listVersion on its own.
MaxLen == 2

\* Dotted numeric segments: none (a string version.NewVersion cannot parse),
\* 1.9, 1.10, 1.21, 1.21.0, 1.21.1 and 2.
Segments == {<<>>, <<1, 9>>, <<1, 10>>, <<1, 21>>, <<1, 21, 0>>, <<1, 21, 1>>, <<2>>}

\* The strings compareGoVersions is called with, with and without "go".
VersionStrings == {Str(g, seg) : g \in BOOLEAN, seg \in Segments}

\* The tags a listing body may hold: stable, marked and unmarked pre-release.
ListedTags == Tags \cup RcTags \cup PreTags

Listings == UNION {[1..n -> ListedTags] : n \in 0..MaxLen}

\* What `go version` can do: fail, print something without a version, print
\* go1.21.0.
Toolchains == UNION {ToolchainsFor(p) : p \in Projects}

\* The calls made: compareGoVersions(current, required), listVersion of a
\* module whose listing body is raw, GoGet's call of GoVersion in a
\* directory with the given go.mod and toolchain.
PureCalls ==
    {[op |-> "compare", current |-> c, required |-> r, done |-> FALSE, result |-> FALSE] :
        c \in VersionStrings, r \in VersionStrings}
    \cup
    {[op |-> "list", raw |-> raw, verbose |-> vb, done |-> FALSE, result |-> <<>>] :
        raw \in Listings, vb \in BOOLEAN}
    \cup
    {[op |-> "goversion", project |-> p, toolchain |-> t] :
        p \in Projects, t \in Toolchains}

CallCompare ==
    /\ pure.op = "compare"
    /\ ~pure.done
    /\ pure' = [pure EXCEPT !.done = TRUE,
                            !.result = compareGoVersions(pure.current, pure.required)]
    /\ UNCHANGED <<registryVars, disk, modMap, pc, callVars, roundVars>>

CallList ==
    /\ pure.op = "list"
    /\ ~pure.done
    /\ pure' = [pure EXCEPT !.done = TRUE,
                            !.result = listVersion(pure.raw, pure.verbose)]
    /\ UNCHANGED <<registryVars, disk, modMap, pc, callVars, roundVars>>

\* GoGet's first statement, with the go.mod and the toolchain given.
CallGoVersion ==
    /\ pure.op = "goversion"
    /\ \E mo \in Modules, r \in BOOLEAN :
          CallGoGet(mo, r, pure.project, pure.toolchain)

InitPure ==
    /\ InitCall
    /\ registry = <<>>
    /\ nextTag = 1
    /\ gomod = [v \in Tags |-> NoDirectiveBody]
    /\ disk = AbsentFile
    /\ pure \in PureCalls

NextPure == CallCompare \/ CallList \/ CallGoVersion

SpecPure == InitPure /\ [][NextPure]_vars

\* ============================================================== properties

\* The numeric (major, minor, patch) tuple of a version string, missing
\* trailing components taken as 0.
Tuple(s) == [i \in 1..3 |-> IF i <= Len(s.seg) THEN s.seg[i] ELSE 0]

\* x >= y, component by component.
TupleGE(x, y) ==
    \E k \in 1..4 : /\ \A j \in 1..(k - 1) : x[j] = y[j]
                    /\ k = 4 \/ x[k] > y[k]

\* The local toolchain meets what the descriptor declares; a descriptor that
\* declares nothing is met by every toolchain.
Satisfies(local, body) ==
    ~body.directive \/ TupleGE(Tuple(local), Tuple(body.ver))

Indices == 1..Len(versions)

Listed(v) == \E i \in Indices : versions[i] = v

Newest(S) == CHOOSE i \in S : \A j \in S : j <= i

\* The call ran a probe round.
RoundRan == fetchLog # <<>>

\* The probe round of the call has returned its selection.
RoundReturned == RoundRan /\ pc \in {"install", "returned"} /\ retErr # "panic"

\* The call got as far as the search for a version, and the search returned.
SearchReturned == pc = "returned" /\ retErr \in {"nil", "goget", "NoCompatible"}

\* The call handed a version to `go get`.
HandedOff == pc = "returned" /\ installed # <<>>

\* The results received for the version at index i.
ResultsOf(i) == {k \in 1..Len(received) : received[k].version = versions[i]}

\* The probe of the version at index i reported it compatible.
ProbedCompatible(i) == \E k \in ResultsOf(i) : received[k].compatible

CompatibleIndices == {i \in Indices : ProbedCompatible(i)}

\* The cache entry for (localGoVersion, module) that loadCache found.
LoadedEntry ==
    IF loaded.modMap.isNil \/ loaded.modMap.m[localGoVersion].st # "map"
    THEN NoVersion
    ELSE loaded.modMap.m[localGoVersion].kv[module]

\* Every listed version was fetched exactly once.
EachFetchedOnce ==
    /\ Len(fetchLog) = Len(versions)
    /\ \A i \in Indices : fetchLog[i].n = 1

\* C1: when a probe round has returned, the selected version is the one of
\* greatest listing index among the versions whose probe reported compatible
\* (no version is selected if there is none), whatever the order in which
\* the probe tasks ran and delivered their results.
C1_SelectsNewestCompatible ==
    RoundReturned =>
        IF CompatibleIndices = {}
        THEN pc = "returned" /\ retErr = "NoCompatible" /\ installed = <<>>
        ELSE compatibleVersion = versions[Newest(CompatibleIndices)]

\* C1 witness: two versions, both compatible, the result of the newer one
\* delivered first and that of the older one last; the newer one is selected.
C1_Witness ==
    /\ pc = "install"
    /\ Len(versions) = 2
    /\ Len(received) = 2
    /\ received[1].version = versions[2]
    /\ received[2].version = versions[1]
    /\ received[1].compatible /\ received[2].compatible
    /\ compatibleVersion = versions[2]

\* The probe tasks that hold a permit of the semaphore.
PermitHolders ==
    {i \in 1..Len(tasks) : tasks[i].pc \in {"fetch", "send", "release"}}

\* C4: at most MaxConcurrent probe tasks hold a permit at any time, and no
\* permit is held once the probe round has returned.
C4_BoundedConcurrency ==
    /\ Cardinality(PermitHolders) <= MaxConcurrent
    /\ RoundReturned => (PermitHolders = {} /\ sem = 0)

\* C4 witness: every permit is taken by a task whose fetch is outstanding
\* while another task waits for a permit.
C4_Witness ==
    /\ pc = "wait"
    /\ Cardinality(PermitHolders) = MaxConcurrent
    /\ \E i \in 1..Len(tasks) : tasks[i].pc = "fetch"
    /\ \E i \in 1..Len(tasks) : tasks[i].pc = "acquire"

\* C5: a failed descriptor fetch is recorded as not compatible for its own
\* version; the round still delivers one result per listed version, each
\* determined by that version's own fetch alone, and selects the newest
\* version whose own fetch succeeded and was found compatible.
C5_FailureIsolated ==
    RoundReturned =>
        /\ Len(received) = Len(versions)
        /\ \A i \in Indices :
              /\ Cardinality(ResultsOf(i)) = 1
              /\ ~fetchLog[i].transportOK => ~ProbedCompatible(i)
              /\ \A k \in ResultsOf(i) :
                    received[k] =
                        ProbeResult(localGoVersion, versions[i],
                                    getModuleGoVersion(fetchLog[i].transportOK,
                                                       fetchLog[i].body))
        /\ LET ok == {i \in CompatibleIndices : fetchLog[i].transportOK}
           IN  IF ok = {} THEN installed = <<>> /\ retErr = "NoCompatible"
               ELSE compatibleVersion = versions[Newest(ok)]

\* C5 witness: the fetch for the newest of two versions failed, and the
\* older version, whose fetch succeeded, is selected.
C5_Witness ==
    /\ pc = "install"
    /\ Len(versions) = 2
    /\ Len(fetchLog) = 2
    /\ ~fetchLog[2].transportOK
    /\ fetchLog[1].transportOK
    /\ compatibleVersion = versions[1]

\* C6 (as claimed): a published version whose descriptor was fetched and
\* holds no go directive is marked compatible by the probe round.
C6_NoDirectiveIsCompatible ==
    RoundReturned =>
        \A i \in Indices :
            (versions[i] \in Tags /\ fetchLog[i].transportOK
                /\ ~fetchLog[i].body.directive) => ProbedCompatible(i)

\* The versions of the listing that the local toolchain can build.
TrulyCompatible == {i \in Indices : Satisfies(localGoVersion, DescriptorOf(versions[i]))}

C3_NeverAboveLocal ==
    /\ HandedOff => Satisfies(localGoVersion, DescriptorOf(compatibleVersion))
    /\ ( /\ pc = "returned"
         /\ RoundRan
         /\ localGoVersion = Str(TRUE, <<1, 21, 0>>)
         /\ versions = <<1, 2>>
         /\ gomod[1] = DirectiveBody(<<1, 18>>)
         /\ gomod[2] = DirectiveBody(<<1, 22>>)
         /\ \A i \in Indices : fetchLog[i].transportOK )
       => installed = <<<<module, 1>>>>

\* C3 witness: the scenario of the claim has run.
C3_Witness ==
    /\ HandedOff
    /\ RoundRan
    /\ localGoVersion = Str(TRUE, <<1, 21, 0>>)
    /\ versions = <<1, 2>>
    /\ gomod[1] = DirectiveBody(<<1, 18>>)
    /\ gomod[2] = DirectiveBody(<<1, 22>>)
    /\ compatibleVersion = 1

\* Every fetch of the round failed in transport.
AllTransportFailed == RoundRan /\ \A i \in Indices : ~fetchLog[i].transportOK

\* C7 (as claimed): when every probe fails in transport the call fails with
\* NoCompatibleVersion and both the map in memory and the cache file are as
\* loadCache left them.
C7_CacheUntouched ==
    (pc = "returned" /\ AllTransportFailed) =>
        /\ retErr = "NoCompatible"
        /\ modMap = loaded.modMap
        /\ disk = loaded.disk

\* C7 (amended): when every probe fails in transport the call fails with
\* NoCompatibleVersion, the cache file is as loadCache left it, and the map
\* in memory holds the same entries as after loadCache; it differs at most
\* by an empty inner map created under the local toolchain version.
C7_FileUntouched ==
    (pc = "returned" /\ AllTransportFailed) =>
        /\ retErr = "NoCompatible"
        /\ installed = <<>>
        /\ disk = loaded.disk
        /\ modMap.isNil = loaded.modMap.isNil
        /\ \A l \in LocalGoVersions :
              /\ modMap.m[l].kv = loaded.modMap.m[l].kv
              /\ l # localGoVersion => modMap.m[l] = loaded.modMap.m[l]
        /\ modMap.m[localGoVersion].st =
              IF loaded.modMap.m[localGoVersion].st = "absent" THEN "map"
              ELSE loaded.modMap.m[localGoVersion].st

\* C7 witness: every probe of a round over two versions failed; the cache
\* held no key for the local toolchain version and holds an empty one now.
C7_Witness ==
    /\ pc = "returned"
    /\ AllTransportFailed
    /\ Len(versions) = 2
    /\ loaded.modMap.m[localGoVersion].st = "absent"
    /\ modMap.m[localGoVersion] = EmptyInner

\* C8: a call with refresh that reaches the search probes every listed
\* version, also when the cache holds a listed entry; what it hands off is
\* the newest version the fresh round reported compatible, and the cache
\* entry in memory is overwritten with it.
C8_RefreshProbes ==
    (SearchReturned /\ refresh) =>
        /\ EachFetchedOnce
        /\ IF CompatibleIndices = {}
           THEN retErr = "NoCompatible" /\ installed = <<>>
           ELSE /\ installed = <<<<module, versions[Newest(CompatibleIndices)]>>>>
                /\ modMap.m[localGoVersion].kv[module] =
                      versions[Newest(CompatibleIndices)]

\* C8 witness: the cache held a listed entry for (local, module); the
\* refresh probed, selected another version and replaced the entry.
C8_Witness ==
    /\ SearchReturned
    /\ refresh
    /\ LoadedEntry # NoVersion
    /\ Listed(LoadedEntry)
    /\ installed # <<>>
    /\ compatibleVersion # LoadedEntry
    /\ modMap.m[localGoVersion].kv[module] = compatibleVersion

\* C9: without refresh, the search returns the cached version exactly when
\* the loaded cache holds an entry for (local toolchain, module) whose
\* version is listed, and then fetches nothing; otherwise a full probe
\* round runs.
C9_LookupOnlyListed ==
    (SearchReturned /\ ~refresh) =>
        IF LoadedEntry # NoVersion /\ Listed(LoadedEntry)
        THEN ~RoundRan /\ compatibleVersion = LoadedEntry
        ELSE RoundRan /\ EachFetchedOnce

\* C9 witness: the cached version is no longer listed and a probe round ran.
C9_Witness ==
    /\ SearchReturned
    /\ ~refresh
    /\ LoadedEntry # NoVersion
    /\ ~Listed(LoadedEntry)
    /\ RoundRan

\* A probe round stored its selection and the save reached the file.
StorePersisted ==
    /\ HandedOff
    /\ RoundRan
    /\ disk.kind = "doc"
    /\ disk # loaded.disk \/ LoadedEntry = compatibleVersion

\* C10: once a store of (local, module, version) is persisted, loading the
\* file and looking (local, module) up against a listing that holds the
\* version returns it; storing the same triple again changes neither the map
\* nor the document.
C10_RoundTrip ==
    StorePersisted =>
        /\ LET l == loadCache(disk, TRUE)
           IN  /\ ~l.err
               /\ l.file = disk
               /\ \A vs \in {versions, <<compatibleVersion>>} :
                     findCompatibleVersionFromCache(l.modMap, module, vs,
                                                    localGoVersion) = compatibleVersion
        /\ LET again == StoreSelected(modMap, localGoVersion, module, compatibleVersion)
           IN  /\ ~again.panic
               /\ again.modMap = modMap
               /\ saveCache(again.modMap, disk, TRUE).file = disk

\* C10 witness: a store was persisted into a cache that already held an
\* entry under the other module.
C10_Witness ==
    /\ StorePersisted
    /\ \E mo \in Modules : mo # module /\ modMap.m[localGoVersion].kv[mo] # NoVersion

\* The cache file GoGet found was missing, unreadable or not JSON.
StoreUnusable == loaded.before.kind # "doc"

\* C11 (as claimed): loadCache never fails its caller: when the cache file
\* is missing, unreadable or malformed, GoGet does not return loadCache's
\* error, the map is empty after the load and the file holds the empty
\* document.
C11_LoadNeverFails ==
    (pc = "returned" /\ loaded.done /\ StoreUnusable) =>
        /\ retErr # "loadCache"
        /\ loaded.modMap = EmptyMap
        /\ loaded.disk = DocFile(MarshalIndent(EmptyMap))

\* The timer of the command fired during the call.
TimerFired == pc = "exited"

\* C12 (as claimed): when the timeout fires during the call, GoGet returns
\* to its caller with a timeout error.
C12_TimeoutReturnsError == TimerFired => retErr = "timeout"

\* A string that holds no dotted number after its "go" prefix.
Unparseable(s) == s.seg = <<>>

\* C13: compareGoVersions(current, required) is true exactly when the
\* (major, minor, patch) tuple of current, missing components taken as 0, is
\* at least that of required, and is true when either string does not
\* parse; 1.9 is below 1.10, and 1.21 and 1.21.0 are equal.
C13_CompareIsTupleOrder ==
    (pure.op = "compare" /\ pure.done) =>
        /\ pure.result =
              IF Unparseable(pure.current) \/ Unparseable(pure.required) THEN TRUE
              ELSE TupleGE(Tuple(pure.current), Tuple(pure.required))
        /\ (pure.current.seg = <<1, 9>> /\ pure.required.seg = <<1, 10>>)
              => ~pure.result
        /\ ({pure.current.seg, pure.required.seg} = {<<1, 21>>, <<1, 21, 0>>})
              => pure.result

\* C13 witness: go1.9 was compared with the requirement 1.10 and found older.
C13_Witness ==
    /\ pure.op = "compare"
    /\ pure.done
    /\ pure.current = Str(TRUE, <<1, 9>>)
    /\ pure.required = Str(FALSE, <<1, 10>>)
    /\ ~pure.result

\* The three-step fallback over a listing: the stable tags; else the tags
\* without a marker; else the whole listing.
ThreeStep(raw) ==
    LET stable == SelectSeq(raw, LAMBDA v : v \in Tags)
        loose == SelectSeq(raw, LAMBDA v : v \notin RcTags)
    IN  IF stable # <<>> THEN stable
        ELSE IF loose # <<>> THEN loose
        ELSE raw

\* C14 (as claimed): for a non-empty listing listVersion returns the stable
\* tags if there are any, else the tags without an alpha/beta/rc or
\* incompatible marker if there are any, else the whole listing, whatever
\* the verbose flag.
C14_ThreeStepFallback ==
    (pure.op = "list" /\ pure.done /\ pure.raw # <<>>) =>
        pure.result = ThreeStep(pure.raw)

\* The call ended in one of the failures GoGet reports before or instead of
\* a selection.
FailedWithoutSelection ==
    pc = "returned" /\ retErr \in {"GoVersion", "listVersion", "NoCompatible"}

\* C15 (as claimed): a call that fails because the toolchain version cannot
\* be resolved, no version is available or no version is compatible leaves
\* the cache file exactly as it was when the call started.
C15_FailureLeavesStore == FailedWithoutSelection => disk = loaded.before

\* C15 (amended): the only write a failing call makes to the cache file is
\* loadCache's replacement of a missing or unparseable file by the empty
\* document; a file that held a document is left as it was, a call that
\* fails before loadCache writes nothing, and saveCache writes only in a
\* call that selected a version.
C15_OnlyLoadRewrites ==
    /\ FailedWithoutSelection =>
          /\ retErr = "GoVersion" => (~loaded.done /\ disk = loaded.before)
          /\ loaded.done => disk = loaded.disk
          /\ (loaded.done /\ ~StoreUnusable) => disk = loaded.before
          /\ (loaded.done /\ StoreUnusable) => disk = DocFile(MarshalIndent(EmptyMap))
    /\ (pc = "returned" /\ loaded.done /\ disk # loaded.disk) =>
          (HandedOff /\ RoundRan)

\* C15 witness: a call that found no cache file ended without a compatible
\* version and left the empty document.
C15_Witness ==
    /\ pc = "returned"
    /\ retErr = "NoCompatible"
    /\ loaded.before = AbsentFile
    /\ disk = DocFile(MarshalIndent(EmptyMap))

\* C16: when a probe round has returned, every probe task has run to its
\* end, every listed version was fetched exactly once and exactly one
\* result per version was received.
C16_RoundJoins ==
    RoundReturned =>
        /\ Len(tasks) = Len(versions)
        /\ \A i \in 1..Len(tasks) : tasks[i].pc = "exit"
        /\ wg = 0
        /\ resultChan = <<>>
        /\ EachFetchedOnce
        /\ Len(received) = Len(versions)
        /\ \A i \in Indices : Cardinality(ResultsOf(i)) = 1

\* C16 witness: the first result received was compatible and for the newest
\* version; the older version was fetched and its result received all the same.
C16_Witness ==
    /\ pc = "install"
    /\ Len(versions) = 2
    /\ Len(received) = 2
    /\ Len(tasks) = 2
    /\ received[1].version = versions[2]
    /\ received[1].compatible
    /\ fetchLog[1].n = 1
    /\ received[2].version = versions[1]
    /\ tasks[1].pc = "exit"

\* The mapping the cache file holds.
DiskMap == IF disk.kind = "doc" THEN Unmarshal(disk.doc) ELSE EmptyMap

\* The mapping the cache file held when loadCache returned.
LoadedDiskMap ==
    IF loaded.disk.kind = "doc" THEN Unmarshal(loaded.disk.doc) ELSE EmptyMap

\* In this call the probe of v, made with the local version l for module mo,
\* fetched the descriptor of v, found its requirement met by l and reported
\* v compatible; v is in the call's listing.
ConfirmedInCall(l, mo, v) ==
    /\ l = localGoVersion
    /\ mo = module
    /\ \E i \in Indices :
          /\ versions[i] = v
          /\ fetchLog[i].n = 1
          /\ fetchLog[i].transportOK
          /\ fetchLog[i].body.directive
          /\ Satisfies(l, fetchLog[i].body)
          /\ ProbedCompatible(i)

\* C17: every cache entry (L, M) -> V that a call writes, in memory or in
\* the file, is for the call's own L and M, and V is a listed version that
\* a successful probe of the call reported compatible with L; so every
\* entry the file ever holds is a published version whose descriptor, while
\* listed, declares a requirement that L meets.
C17_EntriesWereConfirmed ==
    /\ pc = "returned" =>
          \A l \in LocalGoVersions, mo \in Modules :
              /\ (modMap.m[l].kv[mo] # loaded.modMap.m[l].kv[mo])
                    => ConfirmedInCall(l, mo, modMap.m[l].kv[mo])
              /\ (loaded.done /\ DiskMap.m[l].kv[mo] # LoadedDiskMap.m[l].kv[mo])
                    => ConfirmedInCall(l, mo, DiskMap.m[l].kv[mo])
    /\ (HandedOff /\ RoundRan) =>
          /\ modMap.m[localGoVersion].kv[module] = compatibleVersion
          /\ ConfirmedInCall(localGoVersion, module, compatibleVersion)
    /\ \A l \in LocalGoVersions, mo \in Modules :
          LET v == DiskMap.m[l].kv[mo]
          IN  v # NoVersion => (v \in Tags /\ Satisfies(l, gomod[v]))

\* C17 witness: after several calls the file holds, for one module, the
\* older version under the older toolchain and the newer version, which
\* requires the newer toolchain, under the newer one.
C17_Witness ==
    /\ HandedOff
    /\ RoundRan
    /\ localGoVersion = Str(TRUE, <<1, 22>>)
    /\ DiskMap.m[Str(TRUE, <<1, 21, 0>>)].kv[module] = 1
    /\ DiskMap.m[Str(TRUE, <<1, 22>>)].kv[module] = 2
    /\ gomod[2] = DirectiveBody(<<1, 22>>)

\* C18: the cache map changes only in steps of the orchestrating call that
\* are taken while no probe task is running: before the tasks are started
\* or after all of them have ended; no step of a probe task changes it.
C18_NoWriteDuringProbes ==
    [][ /\ (modMap' # modMap /\ pc' # "exited") =>
              \A i \in 1..Len(tasks) : tasks[i].pc = "exit"
        /\ (pc = "wait" /\ tasks' # tasks /\ pc' # "exited") =>
              (modMap' = modMap /\ disk' = disk)
      ]_vars

\* C18 witness: the selected version has been stored, after both probe
\* tasks ended.
C18_Witness ==
    /\ pc = "install"
    /\ Len(tasks) = 2
    /\ \A i \in 1..Len(tasks) : tasks[i].pc = "exit"
    /\ LoadedEntry = NoVersion
    /\ modMap.m[localGoVersion].kv[module] = compatibleVersion
    /\ StoreAccess \in accesses

BeforeMap ==
    IF loaded.before.kind = "doc" THEN Unmarshal(loaded.before.doc) ELSE EmptyMap

\* C20: a call for (L, M), with or without refresh, leaves every cache
\* entry other than (L, M) as it was, in memory after loadCache and in the
\* file, and while the file holds a document no entry of it disappears: the
\* entry for (L, M) is kept or overwritten.
C20_OnlyOwnEntry ==
    /\ (pc = "returned" /\ ~loaded.done) => disk = loaded.before
    /\ (pc = "returned" /\ loaded.done) =>
          \A l \in LocalGoVersions, mo \in Modules :
              /\ (l # localGoVersion \/ mo # module) =>
                    /\ modMap.m[l].kv[mo] = loaded.modMap.m[l].kv[mo]
                    /\ ~StoreUnusable => DiskMap.m[l].kv[mo] = BeforeMap.m[l].kv[mo]
              /\ (~StoreUnusable /\ BeforeMap.m[l].kv[mo] # NoVersion) =>
                    /\ DiskMap.m[l].kv[mo] # NoVersion
                    /\ modMap.m[l].kv[mo] # NoVersion

\* C20 witness: a call overwrote its own entry while the file held an entry
\* for the other module under the same toolchain version and an entry under
\* the other toolchain version.
C20_Witness ==
    /\ HandedOff
    /\ RoundRan
    /\ BeforeMap.m[localGoVersion].kv[module] = 1
    /\ DiskMap.m[localGoVersion].kv[module] = 2
    /\ \E mo \in Modules \ {module} : DiskMap.m[localGoVersion].kv[mo] # NoVersion
    /\ \E l \in LocalGoVersions \ {localGoVersion} :
          \E mo \in Modules : DiskMap.m[l].kv[mo] # NoVersion

\* C21: GoVersion returns the go directive of go.mod when there is one,
\* whatever `go version` would do; otherwise the version `go version`
\* prints; it fails only when neither gives a version, and GoGet then
\* returns without having loaded the cache, listed versions, fetched a
\* descriptor or run the install command.
C21_ToolchainResolution ==
    (pure.op = "goversion" /\ pc # "start") =>
        LET hasDirective == pure.project.exists /\ pure.project.body.directive
            commandGives == pure.toolchain.ok /\ pure.toolchain.out # EmptyStr
        IN  /\ hasDirective =>
                  /\ pc = "load"
                  /\ localGoVersion = Str(TRUE, pure.project.body.ver.seg)
            /\ (~hasDirective /\ commandGives) =>
                  /\ pc = "load"
                  /\ localGoVersion = Str(TRUE, pure.toolchain.out.seg)
            /\ (~hasDirective /\ ~commandGives) =>
                  /\ pc = "returned"
                  /\ retErr = "GoVersion"
            /\ retErr = "GoVersion" =>
                  /\ ~loaded.done
                  /\ disk = loaded.before
                  /\ modMap = EmptyMap
                  /\ accesses = {}
                  /\ versions = <<>>
                  /\ fetchLog = <<>>
                  /\ installed = <<>>

\* C21 witness: go.mod says go 1.22 and `go version` would print go1.21.0;
\* the call goes on with go1.22.
C21_Witness ==
    /\ pure.op = "goversion"
    /\ pure.project.body = DirectiveBody(<<1, 22>>)
    /\ pure.toolchain.out = Str(FALSE, <<1, 21, 0>>)
    /\ pc = "load"
    /\ localGoVersion = Str(TRUE, <<1, 22>>)

\* The call got past listVersion.
PastListing == pc \in {"find", "wait", "install"} \/ SearchReturned \/ retErr = "panic"

\* C22 (as claimed): when the registry lists no tag at all, the call fails
\* at the listing and never gets to the search: no probe task is started,
\* no descriptor is fetched and the failure is not NoCompatibleVersion.
C22_EmptyListingFailsAtListing ==
    registry = <<>> =>
        /\ ~PastListing
        /\ tasks = <<>>
        /\ fetchLog = <<>>
        /\ retErr # "NoCompatible"


\* The call found, without refresh, a loaded entry for (local, module) that
\* names a listed version, and its search has returned.
CacheHit ==
    /\ ~refresh
    /\ loaded.done
    /\ pc \in {"install", "returned"}
    /\ LoadedEntry # NoVersion
    /\ Listed(LoadedEntry)

\* C23: on a cache hit without refresh the search returns the cached
\* version, no probe task was started, no descriptor was fetched, no permit
\* was taken and nothing was sent on the result channel; the install that
\* follows is for the cached version.
C23_HitSkipsProbes ==
    CacheHit =>
        /\ compatibleVersion = LoadedEntry
        /\ tasks = <<>>
        /\ fetchLog = <<>>
        /\ resultChan = <<>>
        /\ received = <<>>
        /\ wg = 0
        /\ sem = 0
        /\ modMap = loaded.modMap
        /\ (pc = "returned" /\ retErr = "nil") =>
               installed = <<<<module, LoadedEntry>>>>

C23_Witness ==
    /\ CacheHit
    /\ pc = "returned"
    /\ retErr = "nil"
    /\ Len(versions) = 2
    /\ LoadedEntry = versions[1]
    /\ compatibleVersion = versions[1]
    /\ fetchLog = <<>>

\* The cache file holds the document with version v under (local, module).
PersistedEntry(v) ==
    /\ disk.kind = "doc"
    /\ LET d == Unmarshal(disk.doc)
       IN  /\ ~d.isNil
           /\ d.m[localGoVersion].st = "map"
           /\ d.m[localGoVersion].kv[module] = v

\* C24 (as claimed): the store of a selection is persisted at once, so
\* whenever the search returns a version selected by a probe round the
\* persisted document holds that version under (local, module).
C24_SelectionIsPersisted ==
    (RoundReturned /\ compatibleVersion # EmptyTag) =>
        PersistedEntry(compatibleVersion)

\* The call ended in a failure of the resolution.
ResolutionFailed ==
    /\ pc = "returned"
    /\ retErr \in {"GoVersion", "loadCache", "listVersion", "NoCompatible"}

\* C25: the install command runs at most once in a call; when it has run,
\* the search had returned a listed version (after the attempt to save the
\* cache when a probe round selected it) and the command was given exactly
\* the module and that version; after a failure of the resolution it has
\* not run.
C25_InstallOnceAfterSelection ==
    /\ Len(installed) <= 1
    /\ installed # <<>> =>
          /\ pc = "returned"
          /\ retErr \in {"nil", "goget"}
          /\ installed[1] = <<module, compatibleVersion>>
          /\ Listed(compatibleVersion)
          /\ RoundRan => (RoundReturned /\ PersistAccess \in accesses)
          /\ ~RoundRan => compatibleVersion = LoadedEntry
    /\ ResolutionFailed => installed = <<>>
    /\ pc \in {"start", "load", "list", "find", "wait", "install"} => installed = <<>>

C25_Witness ==
    /\ pc = "returned"
    /\ retErr = "nil"
    /\ RoundRan
    /\ Len(versions) = 2
    /\ compatibleVersion = versions[1]
    /\ installed = <<<<module, versions[1]>>>>

\* The probe task of index i exists and is at position p.
TaskAt(i, p) == pc = "wait" /\ i \in 1..Len(tasks) /\ tasks[i].pc = p

\* The round is over: the search has returned, or the timer ended the process.
RoundOver == pc \in {"install", "returned", "exited"}

\* C26: under fair scheduling, with every descriptor fetch returning, a
\* probe task that waits for a permit gets one, a task that has its result
\* finds room on the result channel, every task gives its permit back and
\* ends, and the round returns (unless the timer ends the process first),
\* for listings shorter than, as long as and longer than the capacity.
C26_RoundTerminates ==
    /\ [](\A i \in 1..MaxVersions :
             TaskAt(i, "send") => Len(resultChan) < Len(versions))
    /\ \A i \in 1..MaxVersions :
          /\ TaskAt(i, "acquire") ~> (TaskAt(i, "fetch") \/ RoundOver)
          /\ TaskAt(i, "fetch") ~> (TaskAt(i, "exit") \/ RoundOver)
    /\ (pc = "wait") ~> RoundOver

C26_Witness ==
    /\ pc = "install"
    /\ Len(versions) > MaxConcurrent
    /\ Len(tasks) = Len(versions)
    /\ \A i \in 1..Len(tasks) : tasks[i].pc = "exit"
    /\ Len(received) = Len(versions)
    /\ sem = 0
    /\ wg = 0

\* C27 (as claimed): after loadCache accepted the document of the cache
\* file, the null document and a document with a null inner map included,
\* the creation of the inner map and the store of the selection complete:
\* the call does not end in a panic.
C27_AcceptedDocumentNeverCrashes ==
    (pc = "returned" /\ loaded.done /\ loaded.before.kind = "doc") =>
        retErr # "panic"

\* The search of the call has ended, and the lookup of (local, module) in
\* the loaded cache misses for the listing of the call.
SearchEndedOnMiss ==
    /\ pc = "returned"
    /\ loaded.done
    /\ retErr \in {"nil", "goget", "NoCompatible", "panic"}
    /\ findCompatibleVersionFromCache(loaded.modMap, module, versions,
                                      localGoVersion) = EmptyTag

\* The transport outcomes of the descriptor fetches of the call.
TransportOf ==
    [i \in 1..Len(versions) |->
        IF i \in 1..Len(fetchLog) THEN fetchLog[i].transportOK ELSE TRUE]

\* The search with the given refresh flag, from the cache the call loaded,
\* with the listing, the toolchain and the fetch outcomes of the call.
SearchWith(r, writeOK) ==
    Find(loaded.modMap, loaded.disk, module, r, localGoVersion, versions,
         TransportOf, writeOK)

\* The search result f is the one the call ended with.
SameOutcome(f) ==
    /\ f.modMap = modMap
    /\ f.file = disk
    /\ f.version = compatibleVersion
    /\ IF f.err = "none" THEN retErr \in {"nil", "goget"} ELSE retErr = f.err

====
